---- MODULE Spec2Model ----
(***************************************************************************)
(* Model of cli/cmd/check.go of mizu: the `mizu check` command.            *)
(*                                                                         *)
(* One behaviour is one call of runMizuCheck.  The cluster, the API server *)
(* of mizu, the embedded permission files and the pod watch are outside    *)
(* the file: every answer they give is a nondeterministic input of the     *)
(* step that asks for it.  A step is one stage function of runMizuCheck;   *)
(* checkServerConnection and checkImagePullInCluster are cut at their      *)
(* calls to the outside (open a tunnel, probe, close; create, select,      *)
(* remove), because the state between those calls is observable.           *)
(***************************************************************************)
EXTENDS Naturals, Sequences, FiniteSets

\* ------------------------------------------------------------------ bounds
\* longest list of policy rules read from a permission file
MaxRules == 2
\* most CanI queries of one checkPermissions call that do not answer "allowed"
MaxDenied == 2
\* most pods the tapper pod list holds
MaxTappers == 2
\* most items (pod events and errors) the watch delivers in one wait
MaxArrivals == 2

VARIABLES
    preTap,        \* config.Config.Check.PreTap
    nsRestricted,  \* config.Config.IsNsRestrictedMode()
    pc,            \* the statement of runMizuCheck (or of its callee) to run next
    checkPassed,   \* runMizuCheck's local checkPassed
    verdict,       \* the final "Status check results" line: "none", "pass", "fail"
    ctxCancelled,  \* runMizuCheck's ctx, cancelled by the deferred cancel()
    stages,        \* the stage functions entered so far, in order
    results,       \* the check lines logged so far: [stage, subject, passed]
    calls,         \* the calls made to the cluster client so far: [op, arg]
    rules,         \* the policy rules read by checkK8sTapPermissions
    connected,     \* checkServerConnection's local connectedToApiServer
    proxy,         \* the HTTP proxy server of checkProxy: "none", "open", "closed"
    forwarder,     \* the port forwarder of checkPortForward: "none", "open", "closed"
    eventChan,     \* pod events sent on eventChan and not yet received
    errorChan,     \* errors sent on errorChan and not yet received
    eventClosed,   \* the watch has closed eventChan
    errorClosed,   \* the watch has closed errorChan
    eventNil,      \* checkImagePulled has set its eventChan to nil
    errorNil,      \* checkImagePulled has set its errorChan to nil
    timerFired,    \* the channel of time.After(30 * time.Second) holds its tick
    watchResult,   \* how checkImagePulled returned: "none" while it has not
    firstTerminal, \* history: the first terminal signal the watch raised
    arrivals       \* history: the number of items sent on the two channels,
                   \* counted up to MaxArrivals

vars == <<preTap, nsRestricted, pc, checkPassed, verdict, ctxCancelled, stages,
          results, calls, rules, connected, proxy, forwarder, eventChan,
          errorChan, eventClosed, errorClosed, eventNil, errorNil, timerFired,
          watchResult, firstTerminal, arrivals>>

orchVars == <<preTap, nsRestricted>>
connVars == <<connected, proxy, forwarder>>
watchVars == <<eventChan, errorChan, eventClosed, errorClosed, eventNil,
               errorNil, timerFired, watchResult, firstTerminal, arrivals>>

\* ------------------------------------------------------------ log helpers
\* A logged check line; the subject is a tuple so that the permission lines,
\* whose subject is (group, resource, verb), compare with the others.
Line(stage, subject, passed) ==
    [stage |-> stage, subject |-> <<subject>>, passed |-> passed]

Call(op, arg) == [op |-> op, arg |-> arg]

\* The record of a stage function: its name and what it returned ("running"
\* until it returns).
Ret(passed) == IF passed THEN "pass" ELSE "fail"
entered(name, ret) == Append(stages, [name |-> name, ret |-> ret])
returned(ret) == [stages EXCEPT ![Len(stages)].ret = ret]

\* --------------------------------------------------------- runMizuCheck
\* Mutant of StageRuns: the stage is called without looking at checkPassed.
StageRunsAlways == TRUE

\* `if checkPassed { checkPassed = stage(...) }`: the guard of every stage
\* after checkKubernetesApi.
StageRuns == checkPassed

\* The stage sequence of a mode, in the order runMizuCheck calls the stages.
ModeStages(pre) ==
    IF pre
    THEN <<"checkKubernetesApi", "checkKubernetesVersion",
           "checkK8sTapPermissions", "checkImagePullInCluster">>
    ELSE <<"checkKubernetesApi", "checkKubernetesVersion",
           "checkK8sResources", "checkServerConnection">>

Init ==
    /\ preTap \in BOOLEAN
    /\ nsRestricted \in BOOLEAN
    /\ pc = "checkKubernetesApi"
    /\ checkPassed = FALSE
    /\ verdict = "none"
    /\ ctxCancelled = FALSE
    /\ stages = <<>>
    /\ results = <<>>
    /\ calls = <<>>
    /\ rules = <<>>
    /\ connected = FALSE
    /\ proxy = "none"
    /\ forwarder = "none"
    /\ eventChan = <<>>
    /\ errorChan = <<>>
    /\ eventClosed = FALSE
    /\ errorClosed = FALSE
    /\ eventNil = FALSE
    /\ errorNil = FALSE
    /\ timerFired = FALSE
    /\ watchResult = "none"
    /\ firstTerminal = "none"
    /\ arrivals = 0

\* checkKubernetesApi: build the client, then query the version.
ApiLines(initErr, queryErr) ==
    IF initErr
    THEN <<Line("kubernetes-api", "initialize the client", FALSE)>>
    ELSE <<Line("kubernetes-api", "initialize the client", TRUE),
           Line("kubernetes-api", "query the Kubernetes API", ~queryErr)>>

checkKubernetesApi ==
    /\ pc = "checkKubernetesApi"
    /\ \E initErr \in BOOLEAN, queryErr \in BOOLEAN :
         /\ results' = results \o ApiLines(initErr, queryErr)
         /\ calls' = calls \o (IF initErr THEN <<>>
                               ELSE <<Call("GetKubernetesVersion", <<>>)>>)
         /\ checkPassed' = (~initErr /\ ~queryErr)
    /\ stages' = entered("checkKubernetesApi", Ret(checkPassed'))
    /\ pc' = "checkKubernetesVersion"
    /\ UNCHANGED <<orchVars, verdict, ctxCancelled, rules, connVars, watchVars>>

\* Mutant of modeBranch: the post-install stages are entered in both modes.
modeBranchIgnoresMode(pre) == "checkK8sResources"

\* `if config.Config.Check.PreTap { ... } else { ... }`: the first stage of
\* the branch of the mode.
modeBranch(pre) ==
    IF pre THEN "checkK8sTapPermissions" ELSE "checkK8sResources"

\* `if checkPassed { checkPassed = checkKubernetesVersion(...) }`, then the
\* branch on config.Config.Check.PreTap.
checkKubernetesVersion ==
    /\ pc = "checkKubernetesVersion"
    /\ IF StageRuns
       THEN \E versionErr \in BOOLEAN :
              /\ results' = Append(results,
                     Line("kubernetes-version", "minimum Kubernetes API version",
                          ~versionErr))
              /\ checkPassed' = ~versionErr
              /\ stages' = entered("checkKubernetesVersion", Ret(checkPassed'))
       ELSE UNCHANGED <<results, checkPassed, stages>>
    /\ pc' = modeBranch(preTap)
    /\ UNCHANGED <<orchVars, verdict, ctxCancelled, calls, rules, connVars,
                   watchVars>>

\* ----------------------------------------------------- checkK8sResources
\* What an existence query (exist, err) of the cluster client answers.
ExistOutcome == {"exists", "missing", "error"}

\* checkResourceExist: the line is a pass only without error and with exist.
checkResourceExist(outcome) == outcome = "exists"

\* The existence queries of checkK8sResources in the order it issues them:
\* namespace, config map, service account, the role pair of the mode, service.
ResourceCatalog(restricted) ==
    <<[op |-> "DoesNamespaceExist", subject |-> "namespace"],
      [op |-> "DoesConfigMapExist", subject |-> "config map"],
      [op |-> "DoesServiceAccountExist", subject |-> "service account"]>>
    \o (IF restricted
        THEN <<[op |-> "DoesRoleExist", subject |-> "role"],
               [op |-> "DoesRoleBindingExist", subject |-> "role binding"]>>
        ELSE <<[op |-> "DoesClusterRoleExist", subject |-> "cluster role"],
               [op |-> "DoesClusterRoleBindingExist",
                subject |-> "cluster role binding"]>>)
    \o <<[op |-> "DoesServiceExist", subject |-> "service"]>>

\* Mutant of ExistenceIssued: the stage stops at the first query that fails,
\* as `allResourcesExist && checkResourceExist(...)` would.
ExistenceIssuedShort(cat, outs) ==
    LET failing == {i \in 1..Len(cat) : ~checkResourceExist(outs[i])}
    IN  IF failing = {} THEN Len(cat)
        ELSE CHOOSE i \in failing : \A j \in failing : i <= j

\* The queries issued for a catalog whose i-th query answers outs[i]: every
\* one, because each call stands left of `&& allResourcesExist`.
ExistenceIssued(cat, outs) == Len(cat)

ExistenceCalls(cat, outs) ==
    [i \in 1..ExistenceIssued(cat, outs) |-> Call(cat[i].op, <<>>)]

ExistenceLines(cat, outs) ==
    [i \in 1..ExistenceIssued(cat, outs) |->
        Line("k8s-components", cat[i].subject, checkResourceExist(outs[i]))]

\* allResourcesExist after the existence queries: the conjunction of the
\* lines.
RECURSIVE AllPassed(_)
AllPassed(lines) ==
    IF lines = <<>> THEN TRUE ELSE Head(lines).passed /\ AllPassed(Tail(lines))

\* What ListPodsByAppLabel answers for the API server pod: an error, no pod,
\* a first pod that is not running, a first pod that is running.
ServerOutcome == {"error", "none", "notRunning", "running"}

\* What ListPodsByAppLabel answers for the tapper pods: an error, or a list
\* of pods, each running or not.
BoolSeqs(n) == UNION {[1..k -> BOOLEAN] : k \in 0..n}

TapperOutcome ==
    {[err |-> TRUE, pods |-> <<>>]}
    \cup {[err |-> FALSE, pods |-> ps] : ps \in BoolSeqs(MaxTappers)}

notRunningTappers(pods) == Cardinality({i \in 1..Len(pods) : ~pods[i]})

\* checkPodResourcesExist: whether the tapper pods are listed at all.
TappersChecked(server) == server = "running"

\* The answer of a tapper pod listing as it is recorded with the call: the
\* error, or the phase of every listed pod.
PodPhase(running) == IF running THEN "running" ELSE "notRunning"
tapperAnswer(tappers) ==
    IF tappers.err THEN <<"error">>
    ELSE <<"ok">> \o [i \in 1..Len(tappers.pods) |-> PodPhase(tappers.pods[i])]

\* Mutant of tappersRunning: an empty list of tapper pods fails the check.
tappersRunningNonEmpty(tappers) ==
    ~tappers.err /\ Len(tappers.pods) > 0
    /\ notRunningTappers(tappers.pods) = 0

\* checkPodResourcesExist: the tapper check passes when the listing did not
\* fail and `notRunningTappers > 0` is false.
tappersRunning(tappers) ==
    ~tappers.err /\ ~(notRunningTappers(tappers.pods) > 0)

\* checkPodResourcesExist: the calls made, each with its answer, the lines
\* logged, the value returned.
checkPodResourcesExist(server, tappers) ==
    LET serverCall == <<Call("ListPodsByAppLabel", <<"server", server>>)>>
        tapperCall == <<Call("ListPodsByAppLabel",
                             <<"tappers">> \o tapperAnswer(tappers))>>
        tappersOk  == tappersRunning(tappers)
    IN  IF ~TappersChecked(server)
        THEN [calls |-> serverCall,
              lines |-> <<Line("k8s-components", "server pod", server = "running")>>,
              ret   |-> FALSE]
        ELSE [calls |-> serverCall \o tapperCall,
              lines |-> <<Line("k8s-components", "server pod", TRUE),
                          Line("k8s-components", "tapper pods", tappersOk)>>,
              ret   |-> tappersOk]

\* `if checkPassed { checkPassed = checkK8sResources(...) }`
checkK8sResources ==
    /\ pc = "checkK8sResources"
    /\ IF StageRuns
       THEN LET cat == ResourceCatalog(nsRestricted) IN
            \E outs \in [1..Len(cat) -> ExistOutcome],
               server \in ServerOutcome, tappers \in TapperOutcome :
              LET lines == ExistenceLines(cat, outs)
                  pods  == checkPodResourcesExist(server, tappers)
              IN  /\ calls' = calls \o ExistenceCalls(cat, outs) \o pods.calls
                  /\ results' = results \o lines \o pods.lines
                  /\ checkPassed' = (pods.ret /\ AllPassed(lines))
                  /\ stages' = entered("checkK8sResources", Ret(checkPassed'))
       ELSE UNCHANGED <<calls, results, checkPassed, stages>>
    /\ pc' = "checkServerConnection"
    /\ UNCHANGED <<orchVars, verdict, ctxCancelled, rules, connVars, watchVars>>

\* ------------------------------------------------- checkServerConnection
ConnStage == "API-server-connectivity"

\* Mutant of strategyResult: the flag is overwritten by every strategy.
strategyResultOverwrite(prev, err) == ~err

\* connectedToApiServer after a tunnel strategy returned err (TRUE: an
\* error): set on success, left alone on failure.
strategyResult(prev, err) == IF err THEN prev ELSE TRUE

\* `if checkPassed { checkPassed = checkServerConnection(...) }`, up to the
\* direct TestConnection: on success the function returns true at once.
checkServerConnection ==
    /\ pc = "checkServerConnection"
    /\ IF StageRuns
       THEN /\ \E err \in BOOLEAN :
                 IF ~err
                 THEN /\ results' = Append(results, Line(ConnStage, "direct", TRUE))
                      /\ checkPassed' = TRUE
                      /\ stages' = entered("checkServerConnection", "pass")
                      /\ pc' = "verdict"
                 ELSE /\ pc' = "StartProxy"
                      /\ stages' = entered("checkServerConnection", "running")
                      /\ UNCHANGED <<results, checkPassed>>
            /\ connected' = FALSE
       ELSE /\ pc' = "verdict"
            /\ UNCHANGED <<stages, results, checkPassed, connected>>
    /\ UNCHANGED <<orchVars, verdict, ctxCancelled, calls, rules, proxy,
                   forwarder, watchVars>>

\* Mutant of proxyReturns: checkServerConnection returns true as soon as the
\* proxy strategy succeeded, without trying the port-forward.
proxyReturnsShortCircuit(err) ==
    /\ results' = Append(results, Line(ConnStage, "proxy", ~err))
    /\ connected' = strategyResult(connected, err)
    /\ pc' = IF err THEN "NewPortForward" ELSE "verdict"

\* checkProxy returns err to checkServerConnection, which logs the line of
\* the proxy strategy and goes on to checkPortForward.
proxyReturns(err) ==
    /\ results' = Append(results, Line(ConnStage, "proxy", ~err))
    /\ connected' = strategyResult(connected, err)
    /\ pc' = "NewPortForward"

\* checkProxy: kubernetes.StartProxy; its error is returned.
StartProxy ==
    /\ pc = "StartProxy"
    /\ \E err \in BOOLEAN :
         IF err
         THEN proxyReturns(TRUE) /\ UNCHANGED proxy
         ELSE /\ proxy' = "open"
              /\ pc' = "proxyTestConnection"
              /\ UNCHANGED <<results, connected>>
    /\ UNCHANGED <<orchVars, checkPassed, verdict, ctxCancelled, stages, calls,
                   rules, forwarder, watchVars>>

\* checkProxy: TestConnection through the proxy; its error is returned.
proxyTestConnection ==
    /\ pc = "proxyTestConnection"
    /\ \E err \in BOOLEAN :
         IF err
         THEN proxyReturns(TRUE)
         ELSE /\ pc' = "proxyShutdown"
              /\ UNCHANGED <<results, connected>>
    /\ UNCHANGED <<orchVars, checkPassed, verdict, ctxCancelled, stages, calls,
                   rules, proxy, forwarder, watchVars>>

\* checkProxy: httpServer.Shutdown, whose error is only logged for debugging;
\* then return nil.
proxyShutdown ==
    /\ pc = "proxyShutdown"
    /\ \E shutdownErr \in BOOLEAN : proxy' = "closed"
    /\ proxyReturns(FALSE)
    /\ UNCHANGED <<orchVars, checkPassed, verdict, ctxCancelled, stages, calls,
                   rules, forwarder, watchVars>>

\* checkPortForward returns err to checkServerConnection, which logs the line
\* of the port-forward strategy and returns connectedToApiServer.
portForwardReturns(err) ==
    /\ results' = Append(results, Line(ConnStage, "port-forward", ~err))
    /\ connected' = strategyResult(connected, err)
    /\ checkPassed' = connected'
    /\ stages' = returned(Ret(connected'))
    /\ pc' = "verdict"

\* checkPortForward: kubernetes.NewPortForward; its error is returned.
NewPortForward ==
    /\ pc = "NewPortForward"
    /\ \E err \in BOOLEAN :
         IF err
         THEN portForwardReturns(TRUE) /\ UNCHANGED forwarder
         ELSE /\ forwarder' = "open"
              /\ pc' = "portForwardTestConnection"
              /\ UNCHANGED <<results, connected, checkPassed, stages>>
    /\ UNCHANGED <<orchVars, verdict, ctxCancelled, calls, rules, proxy,
                   watchVars>>

\* checkPortForward: TestConnection through the forwarder; its error is
\* returned.
portForwardTestConnection ==
    /\ pc = "portForwardTestConnection"
    /\ \E err \in BOOLEAN :
         IF err
         THEN portForwardReturns(TRUE)
         ELSE /\ pc' = "forwarderClose"
              /\ UNCHANGED <<results, connected, checkPassed, stages>>
    /\ UNCHANGED <<orchVars, verdict, ctxCancelled, calls, rules, proxy,
                   forwarder, watchVars>>

\* checkPortForward: forwarder.Close(), then return nil.
forwarderClose ==
    /\ pc = "forwarderClose"
    /\ forwarder' = "closed"
    /\ portForwardReturns(FALSE)
    /\ UNCHANGED <<orchVars, verdict, ctxCancelled, calls, rules, proxy,
                   watchVars>>

\* ------------------------------------------------ checkK8sTapPermissions
PermStage == "kubernetes-permissions"

\* Policy rules the permission files are taken to hold: apiGroups, resources
\* and verbs are lists, so a value may repeat inside a rule, a tuple may
\* repeat across rules, and a list may be empty.
RuleCatalog ==
    {[groups |-> <<"">>, resources |-> <<"pods">>, verbs |-> <<"list", "watch">>],
     [groups |-> <<"", "apps">>, resources |-> <<"pods", "pods">>,
      verbs |-> <<"list">>],
     [groups |-> <<>>, resources |-> <<"services">>, verbs |-> <<"get">>]}

RuleLists == UNION {[1..k -> RuleCatalog] : k \in 0..MaxRules}

\* What CanI (exist, err) answers.
PermOutcome == {"allowed", "denied", "error"}

\* Mutant of checkPermissionExist: the error of CanI is not looked at.
checkPermissionExistIgnoresError(outcome) == outcome # "denied"

\* checkPermissionExist: the line is a pass only without error and with exist.
checkPermissionExist(outcome) == outcome = "allowed"

\* Mutant of RuleTuples: only the first verb of a rule is checked.
RuleTuplesFirstVerb(rule) ==
    LET R == Len(rule.resources)
        V == IF rule.verbs = <<>> THEN 0 ELSE 1
    IN  [k \in 1..(Len(rule.groups) * R * V) |->
            <<rule.groups[((k - 1) \div R) + 1],
              rule.resources[((k - 1) % R) + 1],
              rule.verbs[1]>>]

\* The (group, resource, verb) tuples of one rule in the order of the three
\* inner loops of checkPermissions.
RuleTuples(rule) ==
    LET R == Len(rule.resources)
        V == Len(rule.verbs)
    IN  [k \in 1..(Len(rule.groups) * R * V) |->
            <<rule.groups[((k - 1) \div (R * V)) + 1],
              rule.resources[(((k - 1) \div V) % R) + 1],
              rule.verbs[((k - 1) % V) + 1]>>]

\* Mutant of PermissionTuples: a tuple already queried is not queried again.
RECURSIVE DedupSeq(_)
DedupSeq(q) ==
    IF q = <<>> THEN <<>>
    ELSE LET rest == DedupSeq(SubSeq(q, 1, Len(q) - 1))
             last == q[Len(q)]
         IN  IF \E i \in 1..Len(rest) : rest[i] = last THEN rest
             ELSE Append(rest, last)

RECURSIVE AllRuleTuples(_)
AllRuleTuples(rs) ==
    IF rs = <<>> THEN <<>> ELSE RuleTuples(Head(rs)) \o AllRuleTuples(Tail(rs))

PermissionTuplesDedup(rs) == DedupSeq(AllRuleTuples(rs))

\* The tuples checkPermissions queries, in order: the outer loop over rules.
RECURSIVE PermissionTuples(_)
PermissionTuples(rs) ==
    IF rs = <<>> THEN <<>>
    ELSE RuleTuples(Head(rs)) \o PermissionTuples(Tail(rs))

\* checkPermissions on rules rs when the i-th CanI answers outs[i]: the calls
\* made, each with its tuple and its answer, the lines logged, the value
\* returned.
checkPermissions(rs, outs) ==
    LET qs    == PermissionTuples(rs)
        lines == [i \in 1..Len(qs) |->
                     [stage |-> PermStage, subject |-> qs[i],
                      passed |-> checkPermissionExist(outs[i])]]
    IN  [calls |-> [i \in 1..Len(qs) |-> Call("CanI", qs[i] \o <<outs[i]>>)],
         lines |-> lines,
         ret   |-> AllPassed(lines)]

\* The answers of n CanI queries of which those at the positions in bad are
\* not "allowed".
Answers(n, bad, kind) ==
    [i \in 1..n |-> IF i \in bad THEN kind[i] ELSE "allowed"]

\* `if checkPassed { checkPassed = checkK8sTapPermissions(...) }`: read and
\* decode the permission file of the mode, then checkPermissions on its rules.
checkK8sTapPermissions ==
    /\ pc = "checkK8sTapPermissions"
    /\ IF StageRuns
       THEN /\ \E readErr \in BOOLEAN, decodeErr \in BOOLEAN :
                 IF readErr \/ decodeErr
                 THEN /\ results' = Append(results,
                             Line(PermStage, "permission file", FALSE))
                      /\ checkPassed' = FALSE
                      /\ UNCHANGED <<rules, calls>>
                 ELSE \E rs \in RuleLists :
                      LET n == Len(PermissionTuples(rs)) IN
                      \E bad \in {b \in SUBSET (1..n) : Cardinality(b) <= MaxDenied} :
                      \E kind \in [bad -> {"denied", "error"}] :
                        LET r == checkPermissions(rs, Answers(n, bad, kind))
                        IN  /\ rules' = rs
                            /\ calls' = calls \o r.calls
                            /\ results' = results \o r.lines
                            /\ checkPassed' = r.ret
            /\ stages' = entered("checkK8sTapPermissions", Ret(checkPassed'))
       ELSE UNCHANGED <<stages, results, checkPassed, rules, calls>>
    /\ pc' = "checkImagePullInCluster"
    /\ UNCHANGED <<orchVars, verdict, ctxCancelled, connVars, watchVars>>

\* ----------------------------------------------- checkImagePullInCluster
PullStage == "image-pull-in-cluster"

\* How a create or remove call of the cluster client ended.
Outcome(err) == IF err THEN "error" ELSE "ok"

\* createImagePullInClusterResources: the calls it makes, each with how it
\* ended; the namespace is created only outside the namespace-restricted
\* mode, and the pod only after the namespace.
createCalls(restricted, nsErr, podErr) ==
    (IF restricted THEN <<>>
     ELSE <<Call("CreateNamespace", <<Outcome(nsErr)>>)>>)
    \o (IF ~restricted /\ nsErr THEN <<>>
        ELSE <<Call("CreatePod", <<Outcome(podErr)>>)>>)

createFailed(restricted, nsErr, podErr) == (~restricted /\ nsErr) \/ podErr

\* removeImagePullInClusterResources, deferred by checkImagePullInCluster
\* before anything is created: the calls it makes, each with how it ended.
removeCalls(restricted, podErr, nsErr) ==
    <<Call("RemovePod", <<Outcome(podErr)>>)>>
    \o (IF restricted THEN <<>>
        ELSE <<Call("RemoveNamespace", <<Outcome(nsErr)>>)>>)

removeFailed(restricted, podErr, nsErr) == podErr \/ (~restricted /\ nsErr)

\* Mutant of pullResult: a failed removal fails the check.
pullResultWithRemoval(ok, removeErr) == ok /\ ~removeErr

\* What checkImagePullInCluster returns when its body ended ok (or not) and
\* the deferred removal failed (or not): the removal's errors are only logged
\* for debugging.
pullResult(ok, removeErr) == ok

\* `if checkPassed { checkPassed = checkImagePullInCluster(...) }`, up to the
\* start of the watch in checkImagePulled; when the creation fails the
\* function returns false through the deferred removal.
checkImagePullInCluster ==
    /\ pc = "checkImagePullInCluster"
    /\ IF StageRuns
       THEN /\ \E nsErr \in BOOLEAN, podErr \in BOOLEAN :
                 IF createFailed(nsRestricted, nsErr, podErr)
                 THEN \E rmPodErr \in BOOLEAN, rmNsErr \in BOOLEAN :
                      /\ calls' = calls
                             \o createCalls(nsRestricted, nsErr, podErr)
                             \o removeCalls(nsRestricted, rmPodErr, rmNsErr)
                      /\ results' = Append(results,
                             Line(PullStage, "create resources", FALSE))
                      /\ checkPassed' = pullResult(FALSE,
                             removeFailed(nsRestricted, rmPodErr, rmNsErr))
                      /\ stages' = entered("checkImagePullInCluster",
                                           Ret(checkPassed'))
                      /\ pc' = "verdict"
                 ELSE /\ calls' = calls \o createCalls(nsRestricted, FALSE, FALSE)
                      /\ stages' = entered("checkImagePullInCluster", "running")
                      /\ pc' = "select"
                      /\ UNCHANGED <<results, checkPassed>>
       ELSE /\ pc' = "verdict"
            /\ UNCHANGED <<stages, calls, results, checkPassed>>
    /\ UNCHANGED <<orchVars, verdict, ctxCancelled, rules, connVars, watchVars>>

\* ------------------------------------------- the watch (kubernetes.FilteredWatch)
\* What the watch sends on eventChan: a pod that is not running yet, a
\* running pod, an object ToPod cannot convert.
WatchEvents == {"Pending", "Running", "NotPod"}

Watching == pc = "select"

\* The first terminal signal raised during the wait.
noteTerminal(signal) ==
    firstTerminal' = IF firstTerminal = "none" THEN signal ELSE firstTerminal

\* The items sent and not yet received: the watch may send without end, but
\* at most MaxArrivals sends wait for the select at a time.
pending == Len(eventChan) + Len(errorChan)

\* The count of sent items after one more send; it stops at MaxArrivals.
arrived == IF arrivals < MaxArrivals THEN arrivals + 1 ELSE arrivals

\* The watch sends a pod event.
sendEvent ==
    /\ Watching /\ ~eventClosed /\ pending < MaxArrivals
    /\ \E e \in WatchEvents :
         /\ eventChan' = Append(eventChan, e)
         /\ noteTerminal(CASE e = "Running" -> "running"
                           [] e = "NotPod"  -> "convert"
                           [] OTHER         -> "none")
    /\ arrivals' = arrived
    /\ UNCHANGED <<orchVars, pc, checkPassed, verdict, ctxCancelled, stages,
                   results, calls, rules, connVars, errorChan, eventClosed,
                   errorClosed, eventNil, errorNil, timerFired, watchResult>>

\* The watch sends an error.
sendError ==
    /\ Watching /\ ~errorClosed /\ pending < MaxArrivals
    /\ errorChan' = Append(errorChan, "error")
    /\ noteTerminal("error")
    /\ arrivals' = arrived
    /\ UNCHANGED <<orchVars, pc, checkPassed, verdict, ctxCancelled, stages,
                   results, calls, rules, connVars, eventChan, eventClosed,
                   errorClosed, eventNil, errorNil, timerFired, watchResult>>

\* The watch closes eventChan.
closeEventChan ==
    /\ Watching /\ ~eventClosed
    /\ eventClosed' = TRUE
    /\ UNCHANGED <<orchVars, pc, checkPassed, verdict, ctxCancelled, stages,
                   results, calls, rules, connVars, eventChan, errorChan,
                   errorClosed, eventNil, errorNil, timerFired, watchResult,
                   firstTerminal, arrivals>>

\* The watch closes errorChan.
closeErrorChan ==
    /\ Watching /\ ~errorClosed
    /\ errorClosed' = TRUE
    /\ UNCHANGED <<orchVars, pc, checkPassed, verdict, ctxCancelled, stages,
                   results, calls, rules, connVars, eventChan, errorChan,
                   eventClosed, eventNil, errorNil, timerFired, watchResult,
                   firstTerminal, arrivals>>

\* Mutant of timerFires: the timer never fires.
timerNeverFires == FALSE /\ UNCHANGED vars

\* The 30 seconds of time.After elapse.
timerFires ==
    /\ Watching /\ ~timerFired
    /\ timerFired' = TRUE
    /\ noteTerminal("timer")
    /\ UNCHANGED <<orchVars, pc, checkPassed, verdict, ctxCancelled, stages,
                   results, calls, rules, connVars, eventChan, errorChan,
                   eventClosed, errorClosed, eventNil, errorNil, watchResult,
                   arrivals>>

\* ------------------------------------------------------ checkImagePulled
\* Mutant of timerReady: the timer case can be taken at any time.
timerAlwaysReady == TRUE

\* A receive case of the select is ready when its channel is not nil and
\* holds an item or is closed; the timer case when the tick is there.
eventReady == ~eventNil /\ (eventChan # <<>> \/ eventClosed)
errorReady == ~errorNil /\ (errorChan # <<>> \/ errorClosed)
timerReady == timerFired

\* Mutant of eventOutcome: any event that converts to a pod ends the wait
\* with success, whatever its phase.
eventOutcomeAnyPhase(e) ==
    IF e = "NotPod" THEN "ConvertError" ELSE "Succeeded"

\* How the wait ends on a received pod event ("none": the loop goes on).
eventOutcome(e) ==
    IF e = "NotPod" THEN "ConvertError"
    ELSE IF e = "Running" THEN "Succeeded"
    ELSE "none"

\* Mutant of closedOutcome: a closed channel ends the wait with an error.
closedOutcomeError == "WatchError"

\* How the wait ends on a receive from a closed channel: `continue`.
closedOutcome == "none"

\* checkImagePulled returns (or loops) with outcome.
selected(outcome) ==
    /\ watchResult' = outcome
    /\ pc' = IF outcome = "none" THEN "select" ELSE "imagePullReturn"

\* case wEvent, ok := <-eventChan
eventCase ==
    /\ eventReady
    /\ IF eventChan # <<>>
       THEN /\ eventChan' = Tail(eventChan)
            /\ selected(eventOutcome(Head(eventChan)))
            /\ UNCHANGED eventNil
       ELSE /\ eventNil' = TRUE
            /\ selected(closedOutcome)
            /\ UNCHANGED eventChan
    /\ UNCHANGED <<errorChan, errorNil>>

\* case err, ok := <-errorChan
errorCase ==
    /\ errorReady
    /\ IF errorChan # <<>>
       THEN /\ errorChan' = Tail(errorChan)
            /\ selected("WatchError")
            /\ UNCHANGED errorNil
       ELSE /\ errorNil' = TRUE
            /\ selected(closedOutcome)
            /\ UNCHANGED errorChan
    /\ UNCHANGED <<eventChan, eventNil>>

\* case <-timeAfter
timerCase ==
    /\ timerReady
    /\ selected("TimedOut")
    /\ UNCHANGED <<eventChan, eventNil, errorChan, errorNil>>

\* One pass of the `for { select { ... } }` loop: Go takes any one of the
\* ready cases.
select ==
    /\ pc = "select"
    /\ (eventCase \/ errorCase \/ timerCase)
    /\ UNCHANGED <<orchVars, checkPassed, verdict, ctxCancelled, stages,
                   results, calls, rules, connVars, eventClosed, errorClosed,
                   timerFired, firstTerminal, arrivals>>

\* checkImagePulled has returned: checkImagePullInCluster logs its line and
\* returns through the deferred removal.
imagePullReturn ==
    /\ pc = "imagePullReturn"
    /\ results' = Append(results,
           Line(PullStage, "pull mizu containers", watchResult = "Succeeded"))
    /\ \E rmPodErr \in BOOLEAN, rmNsErr \in BOOLEAN :
         /\ calls' = calls \o removeCalls(nsRestricted, rmPodErr, rmNsErr)
         /\ checkPassed' = pullResult(watchResult = "Succeeded",
                removeFailed(nsRestricted, rmPodErr, rmNsErr))
    /\ stages' = returned(Ret(checkPassed'))
    /\ pc' = "verdict"
    /\ UNCHANGED <<orchVars, verdict, ctxCancelled, rules, connVars, watchVars>>

\* The last statement of runMizuCheck: the verdict line, then the deferred
\* cancel().
reportVerdict ==
    /\ pc = "verdict"
    /\ verdict' = IF checkPassed THEN "pass" ELSE "fail"
    /\ ctxCancelled' = TRUE
    /\ pc' = "done"
    /\ UNCHANGED <<orchVars, checkPassed, stages, results, calls, rules,
                   connVars, watchVars>>

Next ==
    \/ checkKubernetesApi
    \/ checkKubernetesVersion
    \/ checkK8sResources
    \/ checkServerConnection
    \/ StartProxy
    \/ proxyTestConnection
    \/ proxyShutdown
    \/ NewPortForward
    \/ portForwardTestConnection
    \/ forwarderClose
    \/ checkK8sTapPermissions
    \/ checkImagePullInCluster
    \/ sendEvent
    \/ sendError
    \/ closeEventChan
    \/ closeErrorChan
    \/ timerFires
    \/ select
    \/ imagePullReturn
    \/ reportVerdict

Spec == Init /\ [][Next]_vars

\* The pass of the select that takes the timer case.
timerSelected == select /\ watchResult' = "TimedOut"

\* The scheduling checkImagePulled relies on: the 30 seconds elapse, and the
\* select, which picks at random among its ready cases, does not pass over
\* the ready timer case for ever.
LiveSpec == Spec /\ WF_vars(timerFires) /\ WF_vars(timerSelected)

\* ================================================================ claims
Executed(name) == \E i \in 1..Len(stages) : stages[i].name = name
RetOf(name) == stages[CHOOSE i \in 1..Len(stages) : stages[i].name = name].ret
LinesOf(stage) == SelectSeq(results, LAMBDA l : l.stage = stage)
HasLine(stage, subject, passed) ==
    \E i \in 1..Len(results) :
        /\ results[i].stage = stage
        /\ results[i].subject = <<subject>>
        /\ results[i].passed = passed
Reported(stage, subject) ==
    HasLine(stage, subject, TRUE) \/ HasLine(stage, subject, FALSE)
CallsOf(ops) == SelectSeq(calls, LAMBDA c : c.op \in ops)
Occ(seq, x) == Cardinality({i \in 1..Len(seq) : seq[i] = x})
Returned == pc \in {"verdict", "done"}

\* The stage function that logs the lines of a stage label.
StageOfLabel(label) ==
    CASE label = "kubernetes-api"     -> "checkKubernetesApi"
      [] label = "kubernetes-version" -> "checkKubernetesVersion"
      [] label = PermStage            -> "checkK8sTapPermissions"
      [] label = PullStage            -> "checkImagePullInCluster"
      [] label = "k8s-components"     -> "checkK8sResources"
      [] label = ConnStage            -> "checkServerConnection"

\* C1: the stages that have executed are a prefix of the stage sequence of
\* the mode; every stage before the last executed one returned pass; and when
\* checkKubernetesApi or checkKubernetesVersion returned fail it is the last
\* stage executed and the verdict is fail.
C1_StagesArePrefix ==
    /\ Len(stages) <= Len(ModeStages(preTap))
    /\ \A i \in 1..Len(stages) : stages[i].name = ModeStages(preTap)[i]
    /\ \A i \in 1..Len(stages) : i < Len(stages) => stages[i].ret = "pass"
    /\ \A i \in 1..Len(stages) :
         (i <= 2 /\ stages[i].ret = "fail")
            => /\ Len(stages) = i
               /\ verdict # "pass"
               /\ pc = "done" => verdict = "fail"

\* C1 witness: the version check failed, the run is over, and no stage ran
\* after it.
C1_Witness ==
    /\ pc = "done" /\ verdict = "fail"
    /\ Len(stages) = 2 /\ stages[2].ret = "fail"

\* C2 as stated: at the end of the run the verdict is pass exactly when every
\* logged check line passed, the lines of the connectivity strategies
\* included.
C2_VerdictIsAndOfAllLines ==
    pc = "done" => (verdict = "pass" <=> \A i \in 1..Len(results) : results[i].passed)

\* C2 amended: every line was logged by a stage that executed; and at the end
\* of the run the verdict is pass exactly when every line outside the
\* connectivity stage passed and, if the connectivity stage executed, at least
\* one of its strategy lines passed.
C2_VerdictIsAndOfStages ==
    /\ \A i \in 1..Len(results) : Executed(StageOfLabel(results[i].stage))
    /\ pc = "done" =>
         (verdict = "pass" <=>
            /\ \A i \in 1..Len(results) :
                 results[i].stage # ConnStage => results[i].passed
            /\ Executed("checkServerConnection") =>
                 \E i \in 1..Len(results) :
                    results[i].stage = ConnStage /\ results[i].passed)

\* C2 witness: a run that ends with verdict pass although the proxy strategy
\* logged a failure.
C2_Witness ==
    /\ pc = "done" /\ verdict = "pass"
    /\ HasLine(ConnStage, "proxy", FALSE)
    /\ HasLine(ConnStage, "port-forward", TRUE)

\* C3: once checkK8sResources has executed, the existence queries issued are
\* exactly those of the catalog of the mode, in order, each with its own line,
\* whatever the earlier queries answered; and the stage returned fail if one
\* of these lines is a failure.
ExistenceOps == {"DoesNamespaceExist", "DoesConfigMapExist",
                 "DoesServiceAccountExist", "DoesRoleExist",
                 "DoesRoleBindingExist", "DoesClusterRoleExist",
                 "DoesClusterRoleBindingExist", "DoesServiceExist"}

C3_AllExistenceQueriesIssued ==
    Executed("checkK8sResources") =>
        LET cat   == ResourceCatalog(nsRestricted)
            lines == LinesOf("k8s-components")
            qs    == CallsOf(ExistenceOps)
        IN  /\ Len(qs) = Len(cat)
            /\ Len(lines) > Len(cat)
            /\ \A k \in 1..Len(cat) :
                 /\ qs[k].op = cat[k].op
                 /\ lines[k].subject = <<cat[k].subject>>
            /\ (\E k \in 1..Len(cat) : ~lines[k].passed)
                 => RetOf("checkK8sResources") = "fail"

\* C3 witness: the namespace query failed and the service query, the last of
\* the catalog, was still issued and passed.
C3_Witness ==
    /\ Executed("checkK8sResources")
    /\ HasLine("k8s-components", "namespace", FALSE)
    /\ HasLine("k8s-components", "service", TRUE)
    /\ RetOf("checkK8sResources") = "fail"

\* C4 as stated: once checkK8sResources has executed, the tapper pods have
\* been listed and their line has been logged, also when the server pod check
\* failed.
C4_TappersAlwaysChecked ==
    Executed("checkK8sResources") =>
        /\ \E i \in 1..Len(calls) :
              /\ calls[i].op = "ListPodsByAppLabel"
              /\ calls[i].arg[1] = "tappers"
        /\ Reported("k8s-components", "tapper pods")

\* C5: the CanI queries issued are, tuple by tuple, as many as the rules'
\* cross-products hold it (sum over the rules of groups x resources x verbs,
\* a tuple of two rules counted twice), whatever the earlier queries answered,
\* and every query has its own line.
RECURSIVE QueryCount(_)
QueryCount(rs) ==
    IF rs = <<>> THEN 0
    ELSE Len(Head(rs).groups) * Len(Head(rs).resources) * Len(Head(rs).verbs)
         + QueryCount(Tail(rs))

RECURSIVE TupleCount(_, _)
TupleCount(rs, t) ==
    IF rs = <<>> THEN 0
    ELSE Occ(Head(rs).groups, t[1]) * Occ(Head(rs).resources, t[2])
            * Occ(Head(rs).verbs, t[3])
         + TupleCount(Tail(rs), t)

Elems(seq) == {seq[i] : i \in 1..Len(seq)}

\* C5, as a formula: the queries are as many as the rules' tuples, every
\* queried tuple is queried as often as the rules hold it (with equal totals
\* no tuple of the rules is then left without its queries), and the lines
\* follow the queries one by one.
C5_OneQueryPerTuple ==
    LET qs    == CallsOf({"CanI"})
        args  == [i \in 1..Len(qs) |-> SubSeq(qs[i].arg, 1, 3)]
        lines == SelectSeq(results,
                     LAMBDA l : l.stage = PermStage /\ Len(l.subject) = 3)
    IN  /\ Len(qs) = QueryCount(rules)
        /\ \A t \in Elems(args) : Occ(args, t) = TupleCount(rules, t)
        /\ Len(lines) = Len(qs)
        /\ \A i \in 1..Len(qs) : lines[i].subject = args[i]

\* C5 witness: two rules with the same tuples were checked, the first query
\* failed, and all four queries were issued.
C5_Witness ==
    /\ Len(rules) = 2 /\ rules[1] = rules[2]
    /\ QueryCount(rules) = 4
    /\ Len(CallsOf({"CanI"})) = 4
    /\ ~LinesOf(PermStage)[1].passed
\* C6 as stated: when a Running pod event was sent before any error and
\* before the deadline, checkImagePulled returns success, also when an error
\* sent after the event is pending at the select.
C6_RunningEventWins ==
    (watchResult # "none" /\ firstTerminal = "running" /\ ~timerFired)
        => watchResult = "Succeeded"

\* C7: checkImagePulled returns the timeout error only after the timer has
\* fired, and when it returns without any pod event or error having been sent
\* it returns the timeout error.
C7_TimeoutOnlyAtDeadline ==
    /\ watchResult = "TimedOut" => timerFired
    /\ (watchResult # "none" /\ arrivals = 0) => watchResult = "TimedOut"

\* C7 witness: the wait ended by timeout and nothing was ever sent.
C7_Witness ==
    /\ watchResult = "TimedOut" /\ arrivals = 0
    /\ pc = "done" /\ verdict = "fail"

\* C8: a pass of the select that receives the closing of a channel (and sets
\* the channel to nil) leaves checkImagePulled in its loop with no result and
\* with the other channel and the timer untouched; the wait ends only on a
\* pass that received an item or took the fired timer, so with both channels
\* nil only by timeout.
C8_ClosureNotTerminal ==
    [][ /\ (pc = "select" /\ (eventNil' # eventNil \/ errorNil' # errorNil))
           => /\ pc' = "select" /\ watchResult' = "none"
              /\ eventChan' = eventChan /\ errorChan' = errorChan
              /\ timerFired' = timerFired
        /\ (watchResult = "none" /\ watchResult' # "none")
           => \/ Len(eventChan') < Len(eventChan)
              \/ Len(errorChan') < Len(errorChan)
              \/ (timerFired /\ watchResult' = "TimedOut")
        /\ (eventNil' /\ errorNil' /\ watchResult' # "none")
           => watchResult' = "TimedOut" ]_vars

\* C8 witness: both channels were closed, both closings were received, and
\* checkImagePulled is still waiting, for the timer alone.
C8_Witness ==
    /\ pc = "select" /\ eventNil /\ errorNil
    /\ watchResult = "none" /\ ~timerFired

\* C9 as stated: after checkProxy has returned the proxy server is not open,
\* and after checkPortForward has returned the forwarder is not open.
C9_TunnelsClosedOnReturn ==
    /\ pc \in {"NewPortForward", "portForwardTestConnection", "forwarderClose",
               "verdict", "done"} => proxy # "open"
    /\ Returned => forwarder # "open"

\* C10: when the direct connection succeeded no tunnel was opened and no
\* tunnel strategy was tried; once checkServerConnection has returned, it
\* returned true exactly when one strategy line is a pass, both tunnel
\* strategies were tried if the direct connection failed, and a proxy strategy
\* that succeeded left the proxy closed and was followed by the port-forward.
C10_AnyStrategySucceeds ==
    /\ HasLine(ConnStage, "direct", TRUE)
         => /\ proxy = "none" /\ forwarder = "none"
            /\ ~Reported(ConnStage, "proxy")
            /\ ~Reported(ConnStage, "port-forward")
    /\ (Executed("checkServerConnection") /\ Returned)
         => /\ RetOf("checkServerConnection") = "pass"
                 <=> \E i \in 1..Len(results) :
                        results[i].stage = ConnStage /\ results[i].passed
            /\ pc = "verdict" => checkPassed = (RetOf("checkServerConnection") = "pass")
            /\ ~HasLine(ConnStage, "direct", TRUE)
                 => /\ Reported(ConnStage, "proxy")
                    /\ Reported(ConnStage, "port-forward")
            /\ HasLine(ConnStage, "proxy", TRUE)
                 => /\ proxy = "closed"
                    /\ Reported(ConnStage, "port-forward")

\* C10 witness: the direct connection failed, the proxy strategy succeeded
\* and its proxy is closed, the port-forward was tried and failed, and the
\* stage returned true.
C10_Witness ==
    /\ pc = "done" /\ verdict = "pass"
    /\ ~HasLine(ConnStage, "direct", TRUE)
    /\ HasLine(ConnStage, "proxy", TRUE) /\ proxy = "closed"
    /\ HasLine(ConnStage, "port-forward", FALSE)
\* C11: once checkImagePullInCluster has returned, by whichever path, the
\* removal of the probe pod was attempted (and that of the namespace exactly
\* outside the namespace-restricted mode) after the creation calls; before it
\* returns no removal was attempted; and the value returned is the outcome of
\* the creation and of the wait alone, whether or not the removal failed.
RemoveOps == {"RemovePod", "RemoveNamespace"}
CreateOps == {"CreateNamespace", "CreatePod"}

C11_RemovalAlwaysAttempted ==
    LET rm == CallsOf(RemoveOps) IN
    /\ (Executed("checkImagePullInCluster")
        /\ RetOf("checkImagePullInCluster") # "running")
         => /\ Len(rm) = (IF nsRestricted THEN 1 ELSE 2)
            /\ rm[1].op = "RemovePod"
            /\ ~nsRestricted => rm[2].op = "RemoveNamespace"
            /\ calls[Len(calls)].op \in RemoveOps
            /\ RetOf("checkImagePullInCluster") = "pass"
                 <=> HasLine(PullStage, "pull mizu containers", TRUE)
            /\ pc = "verdict"
                 => checkPassed = (RetOf("checkImagePullInCluster") = "pass")
    /\ (~Executed("checkImagePullInCluster")
        \/ RetOf("checkImagePullInCluster") = "running") => rm = <<>>

\* C11 witness: the image was pulled, both removals failed, and the check
\* returned true.
C11_Witness ==
    /\ Executed("checkImagePullInCluster")
    /\ RetOf("checkImagePullInCluster") = "pass"
    /\ CallsOf(RemoveOps) = <<Call("RemovePod", <<"error">>),
                              Call("RemoveNamespace", <<"error">>)>>

\* C12 as stated: a namespace (a pod) is removed only when its creation by
\* this run succeeded before.
C12_RemovesOnlyWhatItCreated ==
    \A i \in 1..Len(calls) :
        /\ calls[i].op = "RemoveNamespace"
             => \E j \in 1..(i - 1) : calls[j] = Call("CreateNamespace", <<"ok">>)
        /\ calls[i].op = "RemovePod"
             => \E j \in 1..(i - 1) : calls[j] = Call("CreatePod", <<"ok">>)
\* C13: the mode never changes during a run; in a pre-install run neither
\* checkK8sResources nor checkServerConnection executes, no existence or pod
\* list query is made and no tunnel is opened; in a post-install run neither
\* checkK8sTapPermissions nor checkImagePullInCluster executes, and no CanI
\* query, no creation, no removal and no watch is made.
OneBranch ==
    /\ preTap =>
         /\ ~Executed("checkK8sResources") /\ ~Executed("checkServerConnection")
         /\ CallsOf(ExistenceOps \cup {"ListPodsByAppLabel"}) = <<>>
         /\ LinesOf("k8s-components") = <<>> /\ LinesOf(ConnStage) = <<>>
         /\ proxy = "none" /\ forwarder = "none"
    /\ ~preTap =>
         /\ ~Executed("checkK8sTapPermissions")
         /\ ~Executed("checkImagePullInCluster")
         /\ CallsOf({"CanI"} \cup CreateOps \cup RemoveOps) = <<>>
         /\ LinesOf(PermStage) = <<>> /\ LinesOf(PullStage) = <<>>
         /\ watchResult = "none" /\ arrivals = 0 /\ ~timerFired

C13_ModeSelectsOneBranch ==
    [][preTap' = preTap /\ OneBranch /\ OneBranch']_vars

\* C13 witness: a pre-install run that executed its four stages to the end.
C13_Witness ==
    /\ preTap /\ pc = "done" /\ Len(stages) = 4
    /\ CallsOf(CreateOps) # <<>> /\ proxy = "none" /\ forwarder = "none"
\* The premise of C14: a pre-install run is over, the API was reachable, the
\* version is compatible, and every line of the permission stage is a pass.
PreInstallPermitted ==
    /\ pc = "done" /\ preTap
    /\ Len(stages) >= 3
    /\ stages[1].ret = "pass" /\ stages[2].ret = "pass"
    /\ AllPassed(LinesOf(PermStage))

\* C14 as stated: under that premise the verdict is pass, there is one passing
\* line per tuple of the rules, and the connectivity stage did not execute.
C14_PermittedMeansPass ==
    PreInstallPermitted =>
        /\ verdict = "pass"
        /\ Len(LinesOf(PermStage)) = QueryCount(rules)
        /\ ~Executed("checkServerConnection")

\* C14 amended: under that premise the image-pull stage executed and the
\* verdict is pass exactly when it succeeded; there is one passing line per
\* tuple of the rules, and the connectivity stage did not execute.
C14_PermittedAndPulledMeansPass ==
    PreInstallPermitted =>
        /\ Executed("checkImagePullInCluster")
        /\ verdict = "pass" <=> HasLine(PullStage, "pull mizu containers", TRUE)
        /\ Len(LinesOf(PermStage)) = QueryCount(rules)
        /\ LET lines    == LinesOf(PermStage)
               subjects == [i \in 1..Len(lines) |-> lines[i].subject]
           IN  \A t \in Elems(subjects) :
                  Occ(subjects, t) = TupleCount(rules, t)
        /\ ~Executed("checkServerConnection")
        /\ LinesOf(ConnStage) = <<>>

\* C14 witness: a pre-install run with four permitted tuples and a pulled
\* image that ended with verdict pass.
C14_Witness ==
    /\ PreInstallPermitted /\ verdict = "pass"
    /\ QueryCount(rules) = 4 /\ Len(LinesOf(PermStage)) = 4
\* C15 as stated: once checkImagePulled has returned, by whichever path, the
\* context given to the watch is cancelled.
C15_WatchCancelledOnReturn ==
    watchResult # "none" => ctxCancelled
\* The three terminal states of the watcher; a failed conversion of the
\* received event is returned as an error like one read from errorChan.
WatcherState ==
    CASE watchResult = "none"      -> "Watching"
      [] watchResult = "Succeeded" -> "Succeeded"
      [] watchResult = "TimedOut"  -> "TimedOut"
      [] OTHER                     -> "WatchError"

\* C16: every wait of checkImagePulled ends, in one of Succeeded, TimedOut or
\* WatchError, and the state it ended in does not change afterwards; this for
\* every stream of events, errors and closings the watch produces.
C16_WatcherTerminates ==
    /\ (pc = "select") ~>
           (pc # "select"
            /\ WatcherState \in {"Succeeded", "TimedOut", "WatchError"})
    /\ [][ /\ watchResult # "none" => watchResult' = watchResult
           /\ (pc = "select" /\ pc' # "select") => watchResult' # "none"
           /\ pc = "select" => watchResult = "none" ]_vars

\* C16 witness: the watch sent only non-Running pod events, as many as the
\* count goes, then closed both channels; all of it was received, and the wait
\* ended by the timer.
C16_Witness ==
    /\ watchResult = "TimedOut" /\ firstTerminal = "timer"
    /\ arrivals = MaxArrivals /\ eventChan = <<>> /\ errorChan = <<>>
    /\ eventNil /\ errorNil
\* C17: a pass of the select that receives a pod event ends the wait with
\* success when the phase is Running, leaves checkImagePulled waiting when the
\* phase is another one, and ends the wait with an error when the event does
\* not convert to a pod; a pass that receives an error ends the wait with that
\* error; the wait ends with success on no other pass, and the image-pull
\* check passes only after such a success.
C17_SuccessOnlyOnRunning ==
    [][ /\ (pc = "select" /\ Len(eventChan') < Len(eventChan))
           => CASE Head(eventChan) = "Running"
                     -> pc' # "select" /\ watchResult' = "Succeeded"
                [] Head(eventChan) = "NotPod"
                     -> pc' # "select"
                        /\ watchResult' \notin {"none", "Succeeded"}
                [] OTHER
                     -> pc' = "select" /\ watchResult' = "none"
        /\ (pc = "select" /\ Len(errorChan') < Len(errorChan))
           => pc' # "select" /\ watchResult' = "WatchError"
        /\ (watchResult # "Succeeded" /\ watchResult' = "Succeeded")
           => /\ pc = "select" /\ eventChan # <<>>
              /\ Head(eventChan) = "Running" /\ eventChan' = Tail(eventChan)
        /\ (Executed("checkImagePullInCluster")
            /\ RetOf("checkImagePullInCluster") = "pass")'
           => watchResult' = "Succeeded" ]_vars

\* C17 witness: the watch sent pod events only, the last one Running and the
\* ones before it of another phase; all were received and the check passed.
C17_Witness ==
    /\ watchResult = "Succeeded" /\ firstTerminal = "running"
    /\ arrivals = MaxArrivals /\ eventChan = <<>> /\ errorChan = <<>>
    /\ Executed("checkImagePullInCluster")
    /\ RetOf("checkImagePullInCluster") = "pass"
\* The answers of the pod listings made by checkPodResourcesExist.
PodListings(kind) ==
    SelectSeq(CallsOf({"ListPodsByAppLabel"}), LAMBDA c : c.arg[1] = kind)
NotRunningIn(answer) ==
    Cardinality({i \in 2..Len(answer) : answer[i] = "notRunning"})

\* C18: the tapper pod check fails exactly when the listing failed or at
\* least one listed pod is not running, so it passes on an empty list; the
\* server pod check passes exactly when the first listed pod is running, so
\* it fails on an empty list; checkK8sResources passes only when both passed.
C18_PodChecks ==
    /\ PodListings("server") # <<>>
       => LET answer == PodListings("server")[1].arg[2] IN
          /\ Len(PodListings("server")) = 1
          /\ HasLine("k8s-components", "server pod", TRUE) <=> answer = "running"
          /\ HasLine("k8s-components", "server pod", FALSE) <=> answer # "running"
          /\ answer = "none" => RetOf("checkK8sResources") = "fail"
    /\ PodListings("tappers") # <<>>
       => LET answer == Tail(PodListings("tappers")[1].arg)
              failed == answer[1] = "error" \/ NotRunningIn(answer) >= 1
          IN
          /\ Len(PodListings("tappers")) = 1
          /\ HasLine("k8s-components", "tapper pods", FALSE) <=> failed
          /\ HasLine("k8s-components", "tapper pods", TRUE) <=> ~failed
          /\ failed => RetOf("checkK8sResources") = "fail"
    /\ (Executed("checkK8sResources") /\ RetOf("checkK8sResources") = "pass")
       => /\ HasLine("k8s-components", "server pod", TRUE)
          /\ HasLine("k8s-components", "tapper pods", TRUE)

\* C18 witness: the server pod runs, the tapper listing answered with no pod
\* at all, and the tapper check and the stage passed.
C18_Witness ==
    /\ PodListings("tappers") # <<>>
    /\ PodListings("tappers")[1].arg = <<"tappers", "ok">>
    /\ HasLine("k8s-components", "tapper pods", TRUE)
    /\ RetOf("checkK8sResources") = "pass"
\* The answers of the CanI queries, in the order of the queries.
CanIAnswers ==
    LET qs == CallsOf({"CanI"}) IN [i \in 1..Len(qs) |-> qs[i].arg[4]]
PermissionFileLoaded ==
    /\ Executed("checkK8sTapPermissions")
    /\ ~Reported(PermStage, "permission file")

\* C19: when the rules were loaded, checkPermissions returns pass exactly when
\* every CanI query answered allowed; the line of a query is a pass exactly
\* when its answer is allowed, so an error and a denial both fail; rules that
\* yield no tuple issue no query and pass.
C19_PassIffAllAllowed ==
    PermissionFileLoaded =>
        LET answers == CanIAnswers
            lines   == LinesOf(PermStage)
        IN  /\ RetOf("checkK8sTapPermissions") = "pass"
                  <=> \A i \in 1..Len(answers) : answers[i] = "allowed"
            /\ Len(lines) = Len(answers)
            /\ \A i \in 1..Len(answers) :
                  lines[i].passed <=> answers[i] = "allowed"
            /\ QueryCount(rules) = 0
                  => /\ answers = <<>>
                     /\ RetOf("checkK8sTapPermissions") = "pass"

\* C19 witness: one query answered with an error, one with a denial and one
\* with allowed, and the stage failed.
C19_Witness ==
    /\ PermissionFileLoaded
    /\ \E i, j, k \in 1..Len(CanIAnswers) :
         /\ CanIAnswers[i] = "error" /\ CanIAnswers[j] = "denied"
         /\ CanIAnswers[k] = "allowed"
    /\ RetOf("checkK8sTapPermissions") = "fail"
\* C20 as stated: at no point of checkServerConnection are both tunnels open,
\* and the proxy server is not open when checkPortForward is about to open
\* the forwarder, whether the probe through the proxy succeeded or failed.
C20_OneTunnelAtATime ==
    /\ ~(proxy = "open" /\ forwarder = "open")
    /\ pc = "NewPortForward" => proxy # "open"
====
